---- MODULE Spec2Model ----
(***************************************************************************)
(* A model of the shapefile-archive to GeoJSON batch converter             *)
(* (src/index.js, and its variant src/unnamed/part_000).                   *)
(*                                                                         *)
(* JavaScript strings are sequences of one-character strings, so that      *)
(* String.prototype.includes, toLowerCase, path.extname and path.basename  *)
(* are computed character by character.  A JavaScript value that may be    *)
(* null is Null or Str(s).  A JavaScript object whose key order matters    *)
(* (Object.entries) is a sequence of [name, value] entries.                *)
(***************************************************************************)
EXTENDS Integers, Sequences, FiniteSets, TLC

VARIABLES
    \* ---- batchConvert / extractRarAndConvert
    sources,      \* the configured list of {url, outputPath}
    i,            \* batchConvert's loop index (0-based, as in the code)
    pc,           \* where the single thread of control is
    calls,        \* one promise per extractRarAndConvert invocation
    results,      \* batchConvert's results array
    fs,           \* the filesystem: outputPath -> file content, or NoFile
    dirs,         \* directories created by mkdir
    files,        \* extractRarAndConvert: the extracted members
    shapeFiles,   \* extractRarAndConvert: base name -> file set
    entryIdx,     \* position in Object.entries(shapeFiles)
    sourceCRS,    \* projection of the set being converted
    features,     \* features read so far for the set being converted
    convResults,  \* extractRarAndConvert's results array ({name, geojson})
    summary,      \* the two counts printed after the loop
    \* ---- parsePrjFile called on its own
    prjBuffer, prjResult, prjPc,
    \* ---- transformGeometry called on its own
    gGeometry,    \* the geometry object passed in (its state after the call)
    gBefore,      \* its state before the call
    gCRS,         \* the sourceCRS argument
    gOut,         \* what the call returned (a record, see transformGeometry)
    gPc,
    gOrigin,      \* the geometry the first call was given
    gHistory      \* the sourceCRS arguments of the calls made so far

batchVars == <<sources, i, pc, calls, results, fs, dirs, files, shapeFiles,
               entryIdx, sourceCRS, features, convResults, summary>>
prjVars == <<prjBuffer, prjResult, prjPc>>
geomVars == <<gGeometry, gBefore, gCRS, gOut, gPc, gOrigin, gHistory>>
vars == <<batchVars, prjVars, geomVars>>

\* ------------------------------------------------------------------ bounds
MaxItems == 2      \* batch items
MaxFrags == 2      \* fragments a .prj text is made of
MaxChildren == 2   \* children of one coordinate array
MaxCalls == 2      \* transformGeometry calls chained on one geometry
MaxMembers == 3    \* members of an archive, for the grouping on its own

\* ------------------------------------------------------- JavaScript values
Null == [t |-> "null"]
Str(s) == [t |-> "str", s |-> s]
\* !v for a string-or-null v: null and the empty string are falsy.
Falsy(v) == v = Null \/ v = Str(<<>>)

\* src/index.js:13-15
UTM_ZONE_47N == Str(<<"+","p","r","o","j","=","u","t","m"," ","+","z","o","n","e","=","4","7"," ","+","d","a","t","u","m","=","W","G","S","8","4"," ","+","u","n","i","t","s","=","m"," ","+","n","o","_","d","e","f","s">>)
UTM_ZONE_48N == Str(<<"+","p","r","o","j","=","u","t","m"," ","+","z","o","n","e","=","4","8"," ","+","d","a","t","u","m","=","W","G","S","8","4"," ","+","u","n","i","t","s","=","m"," ","+","n","o","_","d","e","f","s">>)
WGS84 == Str(<<"E","P","S","G",":","4","3","2","6">>)

\* String.prototype.includes
Includes(text, pat) ==
    \E k \in 0..(Len(text) - Len(pat)) : SubSeq(text, k + 1, k + Len(pat)) = pat

\* Buffer.prototype.toString("utf-8"): a byte that is no valid UTF-8 decodes
\* to U+FFFD; the other bytes of the model are ASCII and decode to themselves.
BadByte == "\\xFF"
Replacement == "\\uFFFD"
Utf8Decode(buf) ==
    [k \in 1..Len(buf) |-> IF buf[k] = BadByte THEN Replacement ELSE buf[k]]

\* The markers parsePrjFile looks for (src/index.js:23-30).
M47u == <<"U","T","M","_","Z","o","n","e","_","4","7">>
M47s == <<"U","T","M"," ","Z","o","n","e"," ","4","7">>
M48u == <<"U","T","M","_","Z","o","n","e","_","4","8">>
M48s == <<"U","T","M"," ","Z","o","n","e"," ","4","8">>
MWGSu == <<"G","C","S","_","W","G","S","_","1","9","8","4">>
MWGSs == <<"W","G","S"," ","8","4">>

\* A mutant of parsePrjFile: the zone 48 test comes before the zone 47 test.
parsePrjFile_48first(buf) ==
    IF buf = Null THEN Null
    ELSE LET prjText == Utf8Decode(buf.s) IN
         IF Includes(prjText, M48u) \/ Includes(prjText, M48s) THEN UTM_ZONE_48N
         ELSE IF Includes(prjText, M47u) \/ Includes(prjText, M47s) THEN UTM_ZONE_47N
         ELSE IF Includes(prjText, MWGSu) \/ Includes(prjText, MWGSs) THEN WGS84
         ELSE Str(prjText)

\* parsePrjFile(prjBuffer): prjBuffer is Null (undefined) or Str(bytes).  A
\* Buffer is an object, so an empty one is not falsy.
parsePrjFile(buf) ==
    IF buf = Null THEN Null
    ELSE LET prjText == Utf8Decode(buf.s) IN
         IF Includes(prjText, M47u) \/ Includes(prjText, M47s) THEN UTM_ZONE_47N
         ELSE IF Includes(prjText, M48u) \/ Includes(prjText, M48s) THEN UTM_ZONE_48N
         ELSE IF Includes(prjText, MWGSu) \/ Includes(prjText, MWGSs) THEN WGS84
         ELSE Str(prjText)

\* ------------------------------------------------------- transformGeometry
\* proj4 is an external library.  proj4(sourceCRS, WGS84) throws when
\* sourceCRS is no projection definition it can parse; of the strings of the
\* model it parses the three constants and the proj-string MERC.
MERC == Str(<<"+","p","r","o","j","=","m","e","r","c">>)
BOGUS == Str(<<"N","A","D","8","3">>)
Proj4Accepts(crs) == crs \in {UTM_ZONE_47N, UTM_ZONE_48N, WGS84, MERC}

\* transform.forward(coords): reads coords[0] and coords[1] and returns a new
\* array.  The projection itself is the library's: it is modelled as a map
\* that is injective, differs per projection, and is neither the identity
\* nor idempotent (the identity for WGS84 to WGS84).
Forward(crs, coords) ==
    IF crs = WGS84 THEN <<coords[1], coords[2]>>
    ELSE IF crs = UTM_ZONE_47N THEN <<coords[1] + 47, coords[2] + 1>>
    ELSE IF crs = UTM_ZONE_48N THEN <<coords[1] + 48, coords[2] + 1>>
    ELSE <<coords[1] + 5, coords[2] + 2>>

\* transformCoords(coords, depth), closed over `transform` (here: crs).
\* At depth 0, "const [x, y] = transform.forward(coords); return [x, y]".
RECURSIVE transformCoords(_, _, _)
transformCoords(crs, coords, depth) ==
    IF depth = 0
    THEN LET xy == Forward(crs, coords) IN <<xy[1], xy[2]>>
    ELSE [k \in 1..Len(coords) |-> transformCoords(crs, coords[k], depth - 1)]

\* The number of transform.forward calls transformCoords makes.
RECURSIVE ForwardCalls(_, _)
ForwardCalls(coords, depth) ==
    IF depth = 0 THEN 1
    ELSE IF Len(coords) = 0 THEN 0
    ELSE ForwardCalls(Head(coords), depth - 1) + ForwardCalls(Tail(coords), depth)

\* A mutant of KindDepth: the "MultiPoint" case label is missing.
KindDepth_noMultiPoint(type) ==
    CASE type = "Point" -> 0
      [] type = "LineString" -> 1
      [] type \in {"Polygon", "MultiLineString"} -> 2
      [] type = "MultiPolygon" -> 3
      [] OTHER -> -1

\* The switch on geometry.type: the depth transformCoords is called with, or
\* -1 when no case matches.
KindDepth(type) ==
    CASE type = "Point" -> 0
      [] type \in {"LineString", "MultiPoint"} -> 1
      [] type \in {"Polygon", "MultiLineString"} -> 2
      [] type = "MultiPolygon" -> 3
      [] OTHER -> -1

\* obj.field = v
SetField(obj, field, v) ==
    [f \in (DOMAIN obj) \cup {field} |-> IF f = field THEN v ELSE obj[f]]

\* A mutant of SpreadCopy: "const transformed = geometry", no copy.
SpreadCopy_alias(geometry) == [obj |-> geometry, aliased |-> TRUE]

\* "const transformed = { ...geometry }": a new object with the same fields.
SpreadCopy(geometry) == [obj |-> geometry, aliased |-> FALSE]

\* A mutant of IsIdentityCRS: only the !sourceCRS test.
IsIdentityCRS_onlyFalsy(crs) == Falsy(crs)

\* "!sourceCRS || sourceCRS === WGS84 || sourceCRS === 'EPSG:4326'"
IsIdentityCRS(crs) == Falsy(crs) \/ crs = WGS84 \/ crs = Str(<<"E","P","S","G",":","4","3","2","6">>)

\* transformGeometry(geometry, sourceCRS).  The result records what the call
\* did: threw, the value returned, whether that value is the very object
\* passed in (same), the state of the object passed in after the call
\* (input), and the numbers of proj4() and transform.forward() calls.
transformGeometry(geometry, crs) ==
    IF IsIdentityCRS(crs)
    THEN [threw |-> FALSE, value |-> geometry, same |-> TRUE, input |-> geometry,
          projCalls |-> 0, fwdCalls |-> 0]
    ELSE IF ~Proj4Accepts(crs)
    THEN [threw |-> TRUE, value |-> Null, same |-> FALSE, input |-> geometry,
          projCalls |-> 1, fwdCalls |-> 0]
    ELSE LET depth == KindDepth(geometry.type)
             copy == SpreadCopy(geometry)
         IN IF depth = -1
            THEN [threw |-> FALSE, value |-> copy.obj, same |-> copy.aliased,
                  input |-> geometry, projCalls |-> 1, fwdCalls |-> 0]
            ELSE IF "coordinates" \notin DOMAIN geometry
            THEN \* transform.forward(undefined) / undefined.map: a TypeError
                 [threw |-> TRUE, value |-> Null, same |-> FALSE, input |-> geometry,
                  projCalls |-> 1, fwdCalls |-> 0]
            ELSE LET transformed ==
                        SetField(copy.obj, "coordinates",
                                 transformCoords(crs, geometry.coordinates, depth))
                 IN [threw |-> FALSE, value |-> transformed, same |-> copy.aliased,
                     input |-> IF copy.aliased THEN transformed ELSE geometry,
                     projCalls |-> 1,
                     fwdCalls |-> ForwardCalls(geometry.coordinates, depth)]

\* ---- the geometries and projections transformGeometry is called with
SeqsUpTo(S, n) == UNION {[1..k -> S] : k \in 0..n}
P1 == <<0, 0>>
P2 == <<1, 2, 9>>
Pts == {P1, P2}
Lines == SeqsUpTo(Pts, MaxChildren)
RingSample == {<<>>, <<P1>>, <<P2, P1>>}
Polys == SeqsUpTo(RingSample, MaxChildren)
PolySample == {<<>>, << <<P1>> >>, << <<P2, P1>>, <<>> >>}
MultiPolys == SeqsUpTo(PolySample, MaxChildren)
Bare(type, cs) == {[type |-> type, coordinates |-> c] : c \in cs}
WithBbox(gs) == gs \cup {SetField(g, "bbox", <<0, 0, 1, 2>>) : g \in gs}
Geoms ==
    WithBbox(Bare("Point", Pts) \cup Bare("LineString", Lines)
             \cup Bare("MultiPoint", Lines) \cup Bare("Polygon", Polys)
             \cup Bare("MultiLineString", Polys) \cup Bare("MultiPolygon", MultiPolys)
             \cup {[type |-> "GeometryCollection", geometries |-> <<>>]})
    \cup {[type |-> "Point"]}
CRSs == {Null, Str(<<>>), WGS84, UTM_ZONE_47N, UTM_ZONE_48N, MERC, BOGUS}
NoCall == [threw |-> FALSE, value |-> Null, same |-> FALSE, input |-> Null,
           projCalls |-> 0, fwdCalls |-> 0]

\* ================================================== parsePrjFile on its own
RECURSIVE Flatten(_)
Flatten(ss) == IF ss = <<>> THEN <<>> ELSE Head(ss) \o Flatten(Tail(ss))
Fragments ==
    {M47u, M47s, M48u, M48s, MWGSu, MWGSs,
     <<"U","T","M","_","Z","o","n","e","_","4">>, <<"7">>, <<"x">>, <<BadByte>>}
\* undefined (the set has no .prj member), or a Buffer of bytes
PrjInputs == {Null} \cup {Str(Flatten(fr)) : fr \in SeqsUpTo(Fragments, MaxFrags)}

\* The values the variables of the other two machines keep while one runs.
BatchIdle ==
    /\ sources = <<>> /\ i = 0 /\ pc = "idle" /\ calls = <<>> /\ results = <<>>
    /\ fs = <<>> /\ dirs = {} /\ files = <<>> /\ shapeFiles = <<>>
    /\ entryIdx = 0 /\ sourceCRS = Null /\ features = <<>> /\ convResults = <<>>
    /\ summary = Null
PrjIdle == prjBuffer = Null /\ prjResult = Null /\ prjPc = "idle"
GeomIdle ==
    /\ gGeometry = Null /\ gBefore = Null /\ gCRS = Null /\ gOut = NoCall
    /\ gPc = "idle" /\ gOrigin = Null /\ gHistory = <<>>

InitPrj ==
    /\ prjBuffer \in PrjInputs /\ prjResult = Null /\ prjPc = "call"
    /\ BatchIdle /\ GeomIdle

ParsePrj ==
    /\ prjPc = "call"
    /\ prjResult' = parsePrjFile(prjBuffer)
    /\ prjPc' = "returned"
    /\ UNCHANGED <<prjBuffer, batchVars, geomVars>>

NextPrj == ParsePrj
SpecPrj == InitPrj /\ [][NextPrj]_vars

\* ============================================= transformGeometry on its own
InitGeom ==
    /\ gGeometry \in Geoms /\ gBefore = gGeometry /\ gOrigin = gGeometry
    /\ gCRS = Null /\ gOut = NoCall /\ gPc = "ready" /\ gHistory = <<>>
    /\ BatchIdle /\ PrjIdle

\* geometry' = transformGeometry(geometry, crs)
TransformCall ==
    /\ gPc = "ready"
    /\ \E crs \in CRSs :
         LET r == transformGeometry(gGeometry, crs) IN
         /\ gCRS' = crs
         /\ gBefore' = gGeometry
         /\ gGeometry' = r.input
         /\ gOut' = r
         /\ gHistory' = Append(gHistory, crs)
    /\ gPc' = "returned"
    /\ UNCHANGED <<gOrigin, batchVars, prjVars>>

\* The caller passes what it got to the next call, as the pipeline does with
\* "feature.geometry = transformGeometry(feature.geometry, ...)".
TransformAgain ==
    /\ gPc = "returned" /\ ~gOut.threw /\ Len(gHistory) < MaxCalls
    /\ gGeometry' = gOut.value
    /\ gBefore' = gOut.value
    /\ gPc' = "ready"
    /\ UNCHANGED <<gCRS, gOut, gOrigin, gHistory, batchVars, prjVars>>

NextGeom == TransformCall \/ TransformAgain
SpecGeom == InitGeom /\ [][NextGeom]_vars

\* ------------------------------------------------------------------ C6
Has47(text) == Includes(text, M47u) \/ Includes(text, M47s)
Has48(text) == Includes(text, M48u) \/ Includes(text, M48s)
HasWGS(text) == Includes(text, MWGSu) \/ Includes(text, MWGSs)

\* C6: the Projection Resolver returns absent for an absent input; otherwise
\* a zone 47 marker in the decoded text gives UTM-47N whatever else is there,
\* else a zone 48 marker gives UTM-48N, else a WGS84 marker gives WGS84, else
\* the decoded text itself is returned.
C6_ResolverPriority ==
    prjPc = "returned" =>
        IF prjBuffer = Null THEN prjResult = Null
        ELSE LET text == Utf8Decode(prjBuffer.s) IN
             /\ Has47(text) => prjResult = UTM_ZONE_47N
             /\ (~Has47(text) /\ Has48(text)) => prjResult = UTM_ZONE_48N
             /\ (~Has47(text) /\ ~Has48(text) /\ HasWGS(text)) => prjResult = WGS84
             /\ (~Has47(text) /\ ~Has48(text) /\ ~HasWGS(text)) => prjResult = Str(text)

\* A text with a zone 48 marker before a zone 47 marker was resolved.
C6_Witness ==
    /\ prjPc = "returned" /\ prjBuffer # Null
    /\ prjBuffer.s = M48u \o M47s
    /\ prjResult = UTM_ZONE_47N

\* ------------------------------------------------------------------ C7
\* C7: after any number of calls whose sourceCRS was WGS84 or absent, the
\* value returned is the very geometry the first call was given, unchanged,
\* and the last call constructed no projection and applied none.
C7_IdentityOnWGS84 ==
    (gPc = "returned" /\ \A k \in 1..Len(gHistory) : gHistory[k] \in {WGS84, Null}) =>
        /\ ~gOut.threw
        /\ gOut.same
        /\ gOut.value = gOrigin
        /\ gGeometry = gOrigin
        /\ gOut.projCalls = 0
        /\ gOut.fwdCalls = 0

\* A non-empty MultiPolygon went through a WGS84 call and an absent-CRS call.
C7_Witness ==
    /\ gPc = "returned" /\ gHistory = <<WGS84, Null>>
    /\ gOrigin.type = "MultiPolygon" /\ "bbox" \in DOMAIN gOrigin
    /\ gOrigin.coordinates = << << <<P2, P1>>, <<>> >>, << <<P1>> >> >>

\* ------------------------------------------------------------------ C8
SixKinds == {"Point", "LineString", "MultiPoint", "Polygon", "MultiLineString", "MultiPolygon"}
ClaimedDepth(type) ==
    CASE type = "Point" -> 0
      [] type \in {"LineString", "MultiPoint"} -> 1
      [] type \in {"Polygon", "MultiLineString"} -> 2
      [] type = "MultiPolygon" -> 3

\* out has the nested shape of in down to `depth`, and each leaf of out is the
\* forward projection of the leaf of in at the same position.
RECURSIVE SameShapeProjected(_, _, _, _)
SameShapeProjected(crs, in, out, depth) ==
    IF depth = 0 THEN out = Forward(crs, in)
    ELSE /\ Len(out) = Len(in)
         /\ \A k \in 1..Len(in) : SameShapeProjected(crs, in[k], out[k], depth - 1)

RECURSIVE Leaves(_, _)
Leaves(coords, depth) ==
    IF depth = 0 THEN 1
    ELSE IF coords = <<>> THEN 0
    ELSE Leaves(Head(coords), depth - 1) + Leaves(Tail(coords), depth)

NonIdentityCRS(crs) == crs \notin {Null, Str(<<>>), WGS84}
WellFormed(g) == g.type \in SixKinds /\ "coordinates" \in DOMAIN g

\* C8: a call with a non-identity source CRS on a geometry of one of the six
\* kinds with well-formed coordinates that returns, returns coordinates of
\* the same nested shape, each leaf the forward projection of the input's
\* leaf at that position, having applied the projection once per leaf; and
\* it returns whenever the projection can be constructed.
C8_DepthCorrect ==
    (gPc = "returned" /\ NonIdentityCRS(gCRS) /\ WellFormed(gBefore)) =>
        /\ gOut.threw <=> ~Proj4Accepts(gCRS)
        /\ ~gOut.threw =>
             /\ SameShapeProjected(gCRS, gBefore.coordinates, gOut.value.coordinates,
                                   ClaimedDepth(gBefore.type))
             /\ gOut.fwdCalls = Leaves(gBefore.coordinates, ClaimedDepth(gBefore.type))
             /\ gOut.projCalls = 1

\* A MultiPolygon of two polygons, the first with two rings, was projected
\* from UTM 47N.
C8_Witness ==
    /\ gPc = "returned" /\ gCRS = UTM_ZONE_47N /\ ~gOut.threw
    /\ gBefore.type = "MultiPolygon"
    /\ gBefore.coordinates = << << <<P2, P1>>, <<>> >>, << <<P1>> >> >>
    /\ gOut.value.coordinates = << << << <<48, 3>>, <<47, 1>> >>, <<>> >>, << << <<47, 1>> >> >> >>

\* ------------------------------------------------------------------ C9
OtherFieldsEqual(a, b) ==
    /\ (DOMAIN a) \ {"coordinates"} = (DOMAIN b) \ {"coordinates"}
    /\ \A f \in (DOMAIN a) \ {"coordinates"} : a[f] = b[f]

\* C9 as claimed: with a non-identity source CRS the input object is not
\* mutated, the value returned is a new object equal to the input in every
\* field but coordinates, and for a kind outside the six the call raises no
\* error and returns coordinates identical to the input's.
C9_Claimed ==
    (gPc = "returned" /\ NonIdentityCRS(gCRS)) =>
        /\ gGeometry = gBefore
        /\ ~gOut.threw => (~gOut.same /\ OtherFieldsEqual(gOut.value, gBefore))
        /\ gBefore.type \notin SixKinds => (~gOut.threw /\ gOut.value = gBefore)

\* C9 as amended: the same, for a kind outside the six provided a projection
\* can be constructed from the source CRS.
C9_Frame ==
    (gPc = "returned" /\ NonIdentityCRS(gCRS)) =>
        /\ gGeometry = gBefore
        /\ ~gOut.threw => (~gOut.same /\ OtherFieldsEqual(gOut.value, gBefore))
        /\ (gBefore.type \notin SixKinds /\ Proj4Accepts(gCRS)) =>
               (~gOut.threw /\ gOut.value = gBefore)
        /\ (gBefore.type \notin SixKinds /\ ~Proj4Accepts(gCRS)) => gOut.threw

\* A Polygon with a bbox was projected, and so was a GeometryCollection.
C9_Witness ==
    /\ gPc = "returned" /\ gCRS = UTM_ZONE_48N /\ ~gOut.threw
    /\ gBefore.type = "GeometryCollection" /\ "bbox" \in DOMAIN gBefore
    /\ Len(gHistory) = 2 /\ gHistory[1] = MERC /\ gOut.value = gBefore

\* ====================================================== the path functions
UpperChars == <<"A","B","C","D","E","F","G","H","I","J","K","L","M","N","O","P","Q","R","S","T","U","V","W","X","Y","Z">>
LowerChars == <<"a","b","c","d","e","f","g","h","i","j","k","l","m","n","o","p","q","r","s","t","u","v","w","x","y","z">>
\* String.prototype.toLowerCase
ToLowerCase(str) ==
    [k \in 1..Len(str) |->
        IF \E j \in 1..26 : UpperChars[j] = str[k]
        THEN LowerChars[CHOOSE j \in 1..26 : UpperChars[j] = str[k]]
        ELSE str[k]]

\* The last position of character c in str, 0 when there is none.
LastIndexOf(str, c) ==
    IF \E k \in 1..Len(str) : str[k] = c
    THEN CHOOSE k \in 1..Len(str) : str[k] = c /\ \A j \in (k + 1)..Len(str) : str[j] # c
    ELSE 0

RECURSIVE StripTrailingSlashes(_)
StripTrailingSlashes(str) ==
    IF Len(str) > 1 /\ str[Len(str)] = "/"
    THEN StripTrailingSlashes(SubSeq(str, 1, Len(str) - 1))
    ELSE str

\* path.basename(p): what follows the last separator, trailing ones ignored.
Basename(p) ==
    LET q == StripTrailingSlashes(p) IN
    IF q = <<"/">> THEN <<>> ELSE SubSeq(q, LastIndexOf(q, "/") + 1, Len(q))

\* path.extname(fileName) for a file name without separators: from the last
\* dot on, and empty when there is no dot, when the only dot is the first
\* character, or when the name is "..".
Extname(fileName) ==
    LET d == LastIndexOf(fileName, ".") IN
    IF d <= 1 \/ fileName = <<".", ".">> THEN <<>>
    ELSE SubSeq(fileName, d, Len(fileName))

\* path.basename(p, ext): the base name without the suffix ext, when the
\* base name ends with exactly ext (the comparison is by character code).
BasenameExt(p, ext) ==
    LET b == Basename(p) IN
    IF Len(ext) > 0 /\ Len(ext) <= Len(b)
    THEN IF b = ext THEN <<>>
         ELSE IF SubSeq(b, Len(b) - Len(ext) + 1, Len(b)) = ext
         THEN SubSeq(b, 1, Len(b) - Len(ext))
         ELSE b
    ELSE b

ExtShp == <<".","s","h","p">>
ExtShx == <<".","s","h","x">>
ExtDbf == <<".","d","b","f">>
ExtPrj == <<".","p","r","j">>
ExtCpg == <<".","c","p","g">>
\* [".shp", ".shx", ".dbf", ".prj", ".cpg"]
ShapeExts == {ExtShp, ExtShx, ExtDbf, ExtPrj, ExtCpg}

\* ------------------------------------------------------------ the grouping
\* An extracted member: fileHeader.name, and extraction (Null for an entry
\* that has no content, such as a directory; else the bytes).
Member(name, bytes) == [name |-> name, extraction |-> bytes]

\* shapeFiles[baseName][ext] = Buffer.from(file.extraction), creating
\* shapeFiles[baseName] = {} first when it is not there.  shapeFiles is the
\* sequence of its entries in insertion order; a file set is a function from
\* extensions to buffers.
PutFile(sf, baseName, ext, buf) ==
    LET put(fileSet) ==
            [e \in (DOMAIN fileSet) \cup {ext} |-> IF e = ext THEN buf ELSE fileSet[e]]
    IN IF \E k \in 1..Len(sf) : sf[k].name = baseName
       THEN [k \in 1..Len(sf) |->
                IF sf[k].name = baseName
                THEN [name |-> baseName, fileSet |-> put(sf[k].fileSet)]
                ELSE sf[k]]
       ELSE Append(sf, [name |-> baseName, fileSet |-> put(<<>>)])

\* One iteration of "for (const file of files)".
GroupOne(sf, file) ==
    IF file.extraction = Null THEN sf
    ELSE LET fileName == Basename(file.name)
             ext == ToLowerCase(Extname(fileName))
         IN IF ext \in ShapeExts
            THEN PutFile(sf, BasenameExt(fileName, ext), ext, file.extraction)
            ELSE sf

\* The whole loop, from shapeFiles = {}.
RECURSIVE GroupFrom(_, _)
GroupFrom(sf, fs0) ==
    IF fs0 = <<>> THEN sf ELSE GroupFrom(GroupOne(sf, Head(fs0)), Tail(fs0))
GroupFiles(fs0) == GroupFrom(<<>>, fs0)

\* "fileSet['.shp'] && fileSet['.dbf']": a Buffer is truthy, even when empty.
IsComplete(fileSet) == ExtShp \in DOMAIN fileSet /\ ExtDbf \in DOMAIN fileSet

\* ---- members
Bytes == Str(<<"b">>)
N_a_shp == <<"a",".","s","h","p">>
N_a_dbf == <<"a",".","d","b","f">>
N_a_prj == <<"a",".","p","r","j">>
N_a_cpg == <<"a",".","c","p","g">>
N_a_txt == <<"a",".","t","x","t">>
N_b_shp == <<"b",".","s","h","p">>
N_b_dbf == <<"b",".","d","b","f">>
N_b_shx == <<"b",".","s","h","x">>
N_A_SHP == <<"A",".","S","H","P">>
N_A_DBF == <<"A",".","D","B","F">>
N_a_DBF == <<"a",".","D","B","F">>
N_d_b_dbf == <<"d","/","b",".","d","b","f">>
N_dot_shp == <<".","s","h","p">>
N_dir == <<"d","/">>

\* ================================================== the grouping on its own
MemberPool ==
    {Member(n, Bytes) : n \in {N_a_shp, N_a_dbf, N_a_prj, N_a_cpg, N_a_txt, N_b_shx,
                               N_A_SHP, N_A_DBF, N_a_DBF, N_d_b_dbf, N_dot_shp}}
    \cup {Member(N_dir, Null)}

InitGroup ==
    /\ files \in SeqsUpTo(MemberPool, MaxMembers)
    /\ shapeFiles = <<>> /\ pc = "grouping"
    /\ sources = <<>> /\ i = 0 /\ calls = <<>> /\ results = <<>>
    /\ fs = <<>> /\ dirs = {} /\ entryIdx = 0 /\ sourceCRS = Null
    /\ features = <<>> /\ convResults = <<>> /\ summary = Null
    /\ PrjIdle /\ GeomIdle

GroupOnly ==
    /\ pc = "grouping"
    /\ shapeFiles' = GroupFiles(files)
    /\ pc' = "grouped"
    /\ UNCHANGED <<sources, i, calls, results, fs, dirs, files, entryIdx, sourceCRS,
                   features, convResults, summary, prjVars, geomVars>>

NextGroup == GroupOnly
SpecGroup == InitGroup /\ [][NextGroup]_vars

\* ------------------------------------------------------------------ C3
\* The extension of a member, compared case-insensitively, and its base file
\* name with that extension stripped.
LowerExt(m) == ToLowerCase(Extname(Basename(m.name)))
StrippedBase(m) ==
    LET b == Basename(m.name) IN SubSeq(b, 1, Len(b) - Len(Extname(b)))
Extracted(fs0) == {fs0[k] : k \in 1..Len(fs0)} \ {m \in {fs0[k] : k \in 1..Len(fs0)} : m.extraction = Null}
InSet(sf, baseName, ext) ==
    \E k \in 1..Len(sf) : sf[k].name = baseName /\ ext \in DOMAIN sf[k].fileSet

\* C3: after the grouping every extracted member whose extension is, in any
\* letter case, one of the five is in the component set keyed by its base
\* name with the extension stripped, and every (set, extension) slot comes
\* from such a member.
C3_Grouping ==
    pc = "grouped" =>
        /\ \A m \in Extracted(files) :
              LowerExt(m) \in ShapeExts => InSet(shapeFiles, StrippedBase(m), LowerExt(m))
        /\ \A k \in 1..Len(shapeFiles) : \A e \in DOMAIN shapeFiles[k].fileSet :
              \E m \in Extracted(files) :
                  LowerExt(m) = e /\ e \in ShapeExts

\* The part of C3 that holds: members whose extension is written in lower
\* case are grouped under their stripped base name.
C3_LowerCaseGrouping ==
    pc = "grouped" =>
        \A m \in Extracted(files) :
            Extname(Basename(m.name)) \in ShapeExts =>
                InSet(shapeFiles, StrippedBase(m), LowerExt(m))

\* =========================================== batchConvert and the pipeline
NoFile == [t |-> "nofile"]
\* What a failed writeFile may leave behind.
PartialFile == [t |-> "partial"]
TempDir == <<".","/","t","e","m","p","_","e","x","t","r","a","c","t","e","d">>

\* The records a shapefile may hold: a feature without a geometry, a Point,
\* a LineString of three collinear points, and a Polygon whose ring has
\* fewer than four positions.
Feature(g) == [type |-> "Feature", properties |-> "attrs", geometry |-> g]
RecNoGeom == Feature(Null)
RecPoint == Feature([type |-> "Point", coordinates |-> <<500000, 1500000>>])
RecLine == Feature([type |-> "LineString",
                    coordinates |-> << <<0, 0>>, <<1, 1>>, <<2, 2>> >>])
RecBadPoly == Feature([type |-> "Polygon",
                       coordinates |-> << << <<0, 0>>, <<1, 1>>, <<0, 0>> >> >>])

\* The contents of the .shp members of the model.
ShpPointLine == Str(<<"s", "1">>)
ShpNoGeom == Str(<<"s", "2">>)
ShpTruncated == Str(<<"s", "3">>)
ShpUnreadable == Str(<<"s", "4">>)
ShpBadPoly == Str(<<"s", "5">>)

\* The shapefile library is external: shapefile.open(shp, dbf, ...) rejects
\* (ok = FALSE), or gives a source whose read() yields the records in order
\* and then done, or rejects after them (fails = TRUE).  What it does is
\* decided by the bytes.
ShapefileOpen(shp, dbf) ==
    CASE shp = ShpPointLine -> [ok |-> TRUE, records |-> <<RecPoint, RecLine>>, fails |-> FALSE]
      [] shp = ShpNoGeom -> [ok |-> TRUE, records |-> <<RecNoGeom>>, fails |-> FALSE]
      [] shp = ShpTruncated -> [ok |-> TRUE, records |-> <<RecPoint>>, fails |-> TRUE]
      [] shp = ShpBadPoly -> [ok |-> TRUE, records |-> <<RecBadPoly>>, fails |-> FALSE]
      [] OTHER -> [ok |-> FALSE, records |-> <<>>, fails |-> FALSE]

\* The archives a download may yield.  A .prj member holds its text.
PrjBytes48 == Str(<<"P","R","O","J","C","S","[">> \o M48u)
PrjBytesWGS == Str(<<"G","E","O","G","C","S","[">> \o MWGSs)
PrjBytesOther == Str(<<"N","A","D","8","3">>)
Archives ==
    { <<Member(N_a_shp, ShpPointLine), Member(N_a_dbf, Bytes),
        Member(N_a_prj, PrjBytes48), Member(N_b_shx, Bytes)>>,
      <<Member(N_a_shp, ShpPointLine), Member(N_a_dbf, Bytes),
        Member(N_b_dbf, Bytes), Member(N_b_shp, ShpNoGeom)>>,
      <<Member(N_A_SHP, ShpPointLine), Member(N_A_DBF, Bytes)>>,
      <<Member(N_a_txt, Bytes), Member(N_dir, Null)>>,
      <<Member(N_a_dbf, Bytes), Member(N_a_prj, PrjBytesOther),
        Member(N_a_shp, ShpPointLine)>>,
      <<Member(N_b_shp, ShpNoGeom), Member(N_a_shp, ShpPointLine),
        Member(N_a_dbf, Bytes), Member(N_a_prj, PrjBytesWGS)>>,
      <<Member(N_a_shp, ShpNoGeom), Member(N_a_dbf, Bytes),
        Member(N_b_shp, ShpTruncated), Member(N_b_dbf, Bytes)>>,
      <<Member(N_a_shp, ShpUnreadable), Member(N_a_dbf, Bytes)>>,
      <<Member(N_a_shp, ShpBadPoly), Member(N_a_dbf, Bytes)>>,
      <<>> }

\* src/index.js:10
ENABLE_SIMPLIFY == TRUE
Simplified(type) ==
    ENABLE_SIMPLIFY /\ type \in {"Polygon", "MultiPolygon", "LineString", "MultiLineString"}

\* @turf/simplify is an external library.  Of the geometries of the model:
\* it throws on a Polygon with a ring of fewer than four positions, it
\* drops the middle one of three collinear points of a LineString, and it
\* returns a new feature.
Collinear(p, q, r) == (q[1] - p[1]) * (r[2] - p[2]) = (q[2] - p[2]) * (r[1] - p[1])
simplify(feature) ==
    LET g == feature.geometry IN
    IF g.type = "Polygon" /\ \E k \in 1..Len(g.coordinates) : Len(g.coordinates[k]) < 4
    THEN [threw |-> TRUE, value |-> Null]
    ELSE IF g.type = "LineString" /\ Len(g.coordinates) = 3
            /\ Collinear(g.coordinates[1], g.coordinates[2], g.coordinates[3])
    THEN [threw |-> FALSE,
          value |-> [feature EXCEPT !.geometry.coordinates =
                                        <<g.coordinates[1], g.coordinates[3]>>]]
    ELSE [threw |-> FALSE, value |-> feature]

\* The configured sources: item k downloads from URL k (an https URL, or a
\* local path, which index.js also accepts) and writes output path k.
Source(k, scheme) == [url |-> [scheme |-> scheme, n |-> k], outputPath |-> k]
SourceLists ==
    UNION { {[k \in 1..n |-> Source(k, IF k = 1 THEN sc ELSE "https")] :
                sc \in {"https", "file"}} : n \in 1..MaxItems }

Init ==
    /\ sources \in SourceLists
    /\ i = 0 /\ pc = "loop" /\ calls = <<>> /\ results = <<>>
    /\ fs = [k \in 1..Len(sources) |-> NoFile]
    /\ dirs = {<<".","/","o","u","t","p","u","t">>}
    /\ files = <<>> /\ shapeFiles = <<>> /\ entryIdx = 0 /\ sourceCRS = Null
    /\ features = <<>> /\ convResults = <<>> /\ summary = Null
    /\ PrjIdle /\ GeomIdle

idle == <<prjVars, geomVars>>
locals == <<files, shapeFiles, entryIdx, sourceCRS, features, convResults>>
cur == Len(calls)

\* The promise of the running call settles.
Settle(state, reason) ==
    calls' = [calls EXCEPT ![cur] = [@ EXCEPT !.state = state, !.reason = reason]]

\* "throw error" out of extractRarAndConvert: the promise rejects.
Reject(message) == Settle("rejected", message) /\ pc' = "rejected"

\* ---- batchConvert
\* A mutant of BatchCall: the call is not awaited; success is recorded and
\* the loop goes on while the call runs.
BatchCall_noAwait ==
    /\ pc = "loop" /\ i < Len(sources)
    /\ calls' = Append(calls, [url |-> sources[i + 1].url,
                               outputPath |-> sources[i + 1].outputPath,
                               state |-> "pending", reason |-> Null])
    /\ results' = Append(results, [url |-> sources[i + 1].url,
                                   outputPath |-> sources[i + 1].outputPath,
                                   status |-> "success"])
    /\ i' = i + 1
    /\ pc' = "fetch"
    /\ UNCHANGED <<sources, fs, dirs, locals, summary, idle>>

\* The loop test holds: extractRarAndConvert(url, outputPath) is called.
BatchCall ==
    /\ pc = "loop" /\ i < Len(sources)
    /\ calls' = Append(calls, [url |-> sources[i + 1].url,
                               outputPath |-> sources[i + 1].outputPath,
                               state |-> "pending", reason |-> Null])
    /\ pc' = "fetch"
    /\ UNCHANGED <<sources, i, results, fs, dirs, locals, summary, idle>>

\* The locals of the call that returned are gone.
DropLocals ==
    /\ files' = <<>> /\ shapeFiles' = <<>> /\ entryIdx' = 0 /\ sourceCRS' = Null
    /\ features' = <<>> /\ convResults' = <<>>

\* The awaited call returned: results.push({..., status: "success"}).
BatchThen ==
    /\ pc = "resolved"
    /\ results' = Append(results, [url |-> sources[i + 1].url,
                                   outputPath |-> sources[i + 1].outputPath,
                                   status |-> "success"])
    /\ i' = i + 1
    /\ pc' = "loop"
    /\ DropLocals
    /\ UNCHANGED <<sources, calls, fs, dirs, summary, idle>>

\* A mutant of BatchCatch: the failure is recorded and the loop is left.
BatchCatch_abort ==
    /\ pc = "rejected"
    /\ results' = Append(results, [url |-> sources[i + 1].url,
                                   outputPath |-> sources[i + 1].outputPath,
                                   status |-> "failed", error |-> calls[cur].reason.message])
    /\ i' = Len(sources)
    /\ pc' = "loop"
    /\ DropLocals
    /\ UNCHANGED <<sources, calls, fs, dirs, summary, idle>>

\* The awaited call threw: results.push({..., status: "failed", error}).
BatchCatch ==
    /\ pc = "rejected"
    /\ results' = Append(results, [url |-> sources[i + 1].url,
                                   outputPath |-> sources[i + 1].outputPath,
                                   status |-> "failed", error |-> calls[cur].reason.message])
    /\ i' = i + 1
    /\ pc' = "loop"
    /\ DropLocals
    /\ UNCHANGED <<sources, calls, fs, dirs, summary, idle>>

CountStatus(st) == Cardinality({k \in 1..Len(results) : results[k].status = st})

\* The loop is over: the two summary lines, and "return results".
BatchSummary ==
    /\ pc = "loop" /\ i >= Len(sources)
    /\ summary' = [success |-> CountStatus("success"), failed |-> CountStatus("failed")]
    /\ pc' = "done"
    /\ UNCHANGED <<sources, i, calls, results, fs, dirs, locals, idle>>

\* ---- extractRarAndConvert
\* error.message, as the sequence of the parts it is made of
Err(message) == [message |-> <<message>>]
\* new Error(`HTTP error! status: ${response.status}`)
HttpError(status) == [message |-> <<"HTTP error! status: ", status>>]
IsHttp(url) == url.scheme \in {"http", "https"}
pipeRest == <<sources, i, results, summary, idle>>

\* fetch resolved with response.ok, and so did response.arrayBuffer().
FetchOk ==
    /\ pc = "fetch" /\ IsHttp(calls[cur].url)
    /\ pc' = "extract"
    /\ UNCHANGED <<calls, fs, dirs, locals, pipeRest>>

\* !response.ok
FetchHttpError ==
    /\ pc = "fetch" /\ IsHttp(calls[cur].url)
    /\ \E status \in {404, 500} : Reject(HttpError(status))
    /\ UNCHANGED <<fs, dirs, locals, pipeRest>>

\* fetch, or response.arrayBuffer(), rejected.
FetchFail ==
    /\ pc = "fetch" /\ IsHttp(calls[cur].url)
    /\ Reject(Err("fetch failed"))
    /\ UNCHANGED <<fs, dirs, locals, pipeRest>>

\* readFile(rarPath), for a source that is no URL.
ReadFileOk ==
    /\ pc = "fetch" /\ ~IsHttp(calls[cur].url)
    /\ pc' = "extract"
    /\ UNCHANGED <<calls, fs, dirs, locals, pipeRest>>

ReadFileFail ==
    /\ pc = "fetch" /\ ~IsHttp(calls[cur].url)
    /\ Reject(Err("ENOENT"))
    /\ UNCHANGED <<fs, dirs, locals, pipeRest>>

\* createExtractorFromData and extractor.extract()
ExtractorOk ==
    /\ pc = "extract"
    /\ pc' = "mkdir"
    /\ UNCHANGED <<calls, fs, dirs, locals, pipeRest>>

ExtractorFail ==
    /\ pc = "extract"
    /\ Reject(Err("extraction failed"))
    /\ UNCHANGED <<fs, dirs, locals, pipeRest>>

\* mkdir(tempDir, { recursive: true })
MkdirOk ==
    /\ pc = "mkdir"
    /\ dirs' = dirs \cup {TempDir}
    /\ pc' = "group"
    /\ UNCHANGED <<calls, fs, locals, pipeRest>>

MkdirFail ==
    /\ pc = "mkdir"
    /\ Reject(Err("mkdir failed"))
    /\ UNCHANGED <<fs, dirs, locals, pipeRest>>

\* "files = [...extracted.files]" and the grouping loop.
GroupMembers ==
    /\ pc = "group"
    /\ \E arch \in Archives :
         /\ files' = arch
         /\ shapeFiles' = GroupFiles(arch)
    /\ entryIdx' = 1
    /\ pc' = "convert"
    /\ UNCHANGED <<calls, fs, dirs, sourceCRS, features, convResults, pipeRest>>

\* Reading the members out of the archive threw.
FilesFail ==
    /\ pc = "group"
    /\ Reject(Err("extraction failed"))
    /\ UNCHANGED <<fs, dirs, locals, pipeRest>>

AtEntry == pc = "convert" /\ entryIdx <= Len(shapeFiles)
\* fileSet[".prj"]: the buffer, or undefined
PrjOf(fileSet) == IF ExtPrj \in DOMAIN fileSet THEN fileSet[ExtPrj] ELSE Null

\* The set has no .shp or no .dbf: the loop goes to the next entry.
ConvertSkip ==
    /\ AtEntry /\ ~IsComplete(shapeFiles[entryIdx].fileSet)
    /\ entryIdx' = entryIdx + 1
    /\ UNCHANGED <<pc, calls, fs, dirs, files, shapeFiles, sourceCRS, features,
                   convResults, pipeRest>>

Opened(fileSet) == ShapefileOpen(fileSet[ExtShp], fileSet[ExtDbf])

\* parsePrjFile, and shapefile.open resolved.
OpenOk ==
    /\ AtEntry /\ IsComplete(shapeFiles[entryIdx].fileSet)
    /\ Opened(shapeFiles[entryIdx].fileSet).ok
    /\ sourceCRS' = parsePrjFile(PrjOf(shapeFiles[entryIdx].fileSet))
    /\ features' = <<>>
    /\ pc' = "read"
    /\ UNCHANGED <<calls, fs, dirs, files, shapeFiles, entryIdx, convResults, pipeRest>>

\* parsePrjFile, and shapefile.open rejected.
OpenFail ==
    /\ AtEntry /\ IsComplete(shapeFiles[entryIdx].fileSet)
    /\ ~Opened(shapeFiles[entryIdx].fileSet).ok
    /\ sourceCRS' = parsePrjFile(PrjOf(shapeFiles[entryIdx].fileSet))
    /\ Reject(Err("open failed"))
    /\ UNCHANGED <<fs, dirs, files, shapeFiles, entryIdx, features, convResults, pipeRest>>

\* sourceCRS || UTM_ZONE_47N
EffectiveCRS(crs) == IF Falsy(crs) THEN UTM_ZONE_47N ELSE crs
readFrame == <<fs, dirs, files, shapeFiles, entryIdx, sourceCRS, convResults, pipeRest>>

\* The source being read, and the record the next source.read() yields:
\* features holds one feature per record read so far.
Source0 == Opened(shapeFiles[entryIdx].fileSet)
HasRecord == pc = "read" /\ Len(features) < Len(Source0.records)
NextRecord == Source0.records[Len(features) + 1]
AtEnd == pc = "read" /\ Len(features) = Len(Source0.records)
Reprojected(rec) == transformGeometry(rec.geometry, EffectiveCRS(sourceCRS))

\* The loop body for one record, when nothing throws: the feature pushed.
Converted(rec) ==
    IF rec.geometry = Null THEN rec
    ELSE LET f == [rec EXCEPT !.geometry = Reprojected(rec).value] IN
         IF Simplified(f.geometry.type)
         THEN [f EXCEPT !.geometry = simplify(f).value.geometry]
         ELSE f

\* source.read() yielded a record: reproject, simplify, features.push.
ReadRecord ==
    /\ HasRecord
    /\ NextRecord.geometry # Null =>
          /\ ~Reprojected(NextRecord).threw
          /\ Simplified(Reprojected(NextRecord).value.type) =>
                ~simplify([NextRecord EXCEPT !.geometry = Reprojected(NextRecord).value]).threw
    /\ features' = Append(features, Converted(NextRecord))
    /\ UNCHANGED <<pc, calls, readFrame>>

\* source.read() yielded a record and transformGeometry threw.
ReadTransformFail ==
    /\ HasRecord
    /\ NextRecord.geometry # Null
    /\ Reprojected(NextRecord).threw
    /\ Reject(Err("projection failed"))
    /\ UNCHANGED <<features, readFrame>>

\* source.read() yielded a record and simplify threw.
ReadSimplifyFail ==
    /\ HasRecord
    /\ NextRecord.geometry # Null
    /\ ~Reprojected(NextRecord).threw
    /\ Simplified(Reprojected(NextRecord).value.type)
    /\ simplify([NextRecord EXCEPT !.geometry = Reprojected(NextRecord).value]).threw
    /\ Reject(Err("invalid polygon"))
    /\ UNCHANGED <<features, readFrame>>

\* A mutant of ReadFail: the error is swallowed and the loop goes to the
\* next set.
ReadFail_swallow ==
    /\ AtEnd /\ Source0.fails
    /\ entryIdx' = entryIdx + 1
    /\ pc' = "convert"
    /\ UNCHANGED <<calls, features, fs, dirs, files, shapeFiles, sourceCRS,
                   convResults, pipeRest>>

\* source.read() rejected.
ReadFail ==
    /\ AtEnd /\ Source0.fails
    /\ Reject(Err("read failed"))
    /\ UNCHANGED <<features, readFrame>>

\* source.read() yielded done: results.push({ name, geojson }).
ReadDone ==
    /\ AtEnd /\ ~Source0.fails
    /\ convResults' = Append(convResults,
            [name |-> shapeFiles[entryIdx].name,
             geojson |-> [type |-> "FeatureCollection", features |-> features]])
    /\ entryIdx' = entryIdx + 1
    /\ pc' = "convert"
    /\ UNCHANGED <<calls, features, fs, dirs, files, shapeFiles, sourceCRS, pipeRest>>

\* obj[key] = value on an object kept as its entries in insertion order.
ObjAssign(entries, key, value) ==
    IF \E k \in 1..Len(entries) : entries[k].key = key
    THEN [k \in 1..Len(entries) |->
             IF entries[k].key = key THEN [key |-> key, value |-> value] ELSE entries[k]]
    ELSE Append(entries, [key |-> key, value |-> value])

RECURSIVE Combined(_, _)
Combined(entries, rs) ==
    IF rs = <<>> THEN entries
    ELSE Combined(ObjAssign(entries, Head(rs).name, Head(rs).geojson), Tail(rs))

\* A mutant of OutputValue: the first collection whenever there is one.
OutputValue_first(rs) ==
    IF Len(rs) >= 1 THEN rs[1].geojson ELSE [entries |-> Combined(<<>>, rs)]

\* A mutant of OutputValue: results[0].geojson whenever results.length <= 1,
\* which is undefined for no result.
OutputValue_atMostOne(rs) ==
    IF Len(rs) = 0 THEN Null
    ELSE IF Len(rs) = 1 THEN rs[1].geojson ELSE [entries |-> Combined(<<>>, rs)]

\* What is serialised: results[0].geojson when results.length === 1, else
\* the object combined.
OutputValue(rs) ==
    IF Len(rs) = 1 THEN rs[1].geojson ELSE [entries |-> Combined(<<>>, rs)]

\* JSON.stringify(value, null, 2): the text of the value.
JSONstringify(value) == [json |-> value]

AfterLoop == pc = "convert" /\ entryIdx > Len(shapeFiles)

\* writeFile resolved; the function returns.
WriteOk ==
    /\ AfterLoop
    /\ fs' = [fs EXCEPT ![calls[cur].outputPath] = JSONstringify(OutputValue(convResults))]
    /\ Settle("fulfilled", Null)
    /\ pc' = "resolved"
    /\ UNCHANGED <<dirs, locals, pipeRest>>

\* writeFile rejected, leaving the file as it was or partly written.
WriteFail ==
    /\ AfterLoop
    /\ \E left \in {fs[calls[cur].outputPath], PartialFile} :
          fs' = [fs EXCEPT ![calls[cur].outputPath] = left]
    /\ Reject(Err("write failed"))
    /\ UNCHANGED <<dirs, locals, pipeRest>>

extractRarAndConvert ==
    \/ FetchOk \/ FetchHttpError \/ FetchFail \/ ReadFileOk \/ ReadFileFail
    \/ ExtractorOk \/ ExtractorFail \/ MkdirOk \/ MkdirFail
    \/ GroupMembers \/ FilesFail
    \/ ConvertSkip \/ OpenOk \/ OpenFail
    \/ ReadRecord \/ ReadTransformFail \/ ReadSimplifyFail \/ ReadFail \/ ReadDone
    \/ WriteOk \/ WriteFail

batchConvert == BatchCall \/ BatchThen \/ BatchCatch \/ BatchSummary

Next == batchConvert \/ extractRarAndConvert
Spec == Init /\ [][Next]_vars

\* ------------------------------------------------------------------ C1
\* C1: the outcomes recorded so far are those of the first items, in item
\* order, one each; an outcome is "success" exactly when the pipeline call
\* of its item returned and "failed", with the error's message, exactly when
\* it threw; and when the driver is done every item has its outcome.
C1_Outcomes ==
    /\ Len(results) <= Len(calls) /\ Len(calls) <= Len(sources)
    /\ \A k \in 1..Len(results) :
          /\ results[k].url = sources[k].url
          /\ results[k].outputPath = sources[k].outputPath
          /\ calls[k].url = sources[k].url
          /\ results[k].status \in {"success", "failed"}
          /\ results[k].status = "success" <=> calls[k].state = "fulfilled"
          /\ results[k].status = "failed" <=> calls[k].state = "rejected"
          /\ results[k].status = "failed" => results[k].error = calls[k].reason.message
    /\ pc = "done" => Len(results) = Len(sources)

\* A batch of two items is done: the first failed on HTTP 404, the second
\* succeeded.
C1_Witness ==
    /\ pc = "done" /\ Len(sources) = 2
    /\ results[1].status = "failed"
    /\ results[1].error = <<"HTTP error! status: ", 404>>
    /\ results[2].status = "success"

\* ------------------------------------------------------------------ C2
\* Every complete set of shapeFiles has its collection in convResults, with
\* one feature per record of its shapefile.
AllSetsReadToEnd ==
    \A j \in 1..Len(shapeFiles) :
        IsComplete(shapeFiles[j].fileSet) =>
            /\ Opened(shapeFiles[j].fileSet).ok
            /\ ~Opened(shapeFiles[j].fileSet).fails
            /\ \E r \in 1..Len(convResults) :
                  /\ convResults[r].name = shapeFiles[j].name
                  /\ Len(convResults[r].geojson.features)
                        = Len(Opened(shapeFiles[j].fileSet).records)

\* C2: a call that threw before the write left nothing at its output path
\* and its item is recorded failed; nothing is at the output path of a call
\* that has not reached the write; and when the running call has written,
\* the loop over the sets is over and every complete set was read to its end.
C2_AllOrNothing ==
    \A k \in 1..Len(calls) :
        /\ (calls[k].state = "rejected" /\ calls[k].reason # Err("write failed")) =>
              /\ fs[calls[k].outputPath] = NoFile
              /\ k <= Len(results) => results[k].status = "failed"
        /\ calls[k].state = "pending" => fs[calls[k].outputPath] = NoFile
        /\ (k = cur /\ pc \in {"resolved", "rejected"} /\ fs[calls[k].outputPath] # NoFile) =>
              /\ entryIdx > Len(shapeFiles)
              /\ AllSetsReadToEnd

\* The read of a second set failed after a first set was converted: the call
\* threw and nothing is at its output path.
C2_Witness ==
    /\ pc = "rejected" /\ calls[cur].reason = Err("read failed")
    /\ Len(convResults) = 1 /\ entryIdx = 2
    /\ fs[calls[cur].outputPath] = NoFile

\* ------------------------------------------------------------------ C4
\* The base names, extension stripped, that have both a .shp and a .dbf
\* member among the extracted members, the extension in any letter case.
BasesWithShpAndDbf(fs0) ==
    {StrippedBase(m) : m \in {x \in Extracted(fs0) :
        /\ LowerExt(x) = ExtShp
        /\ \E y \in Extracted(fs0) : StrippedBase(y) = StrippedBase(x) /\ LowerExt(y) = ExtDbf}}
ConvertedNames == {convResults[r].name : r \in 1..Len(convResults)}

\* C4 as claimed: when the pipeline has returned, the collections produced
\* are exactly one per base name that has both a .shp and a .dbf member.
C4_Claimed ==
    pc = "resolved" =>
        /\ ConvertedNames = BasesWithShpAndDbf(files)
        /\ Len(convResults) = Cardinality(BasesWithShpAndDbf(files))

\* What holds of the code: the collections produced are exactly one per
\* component set, as the grouping built them, that has both slots.
C4_SetsAsBuilt ==
    pc = "resolved" =>
        /\ ConvertedNames = {shapeFiles[j].name : j \in {x \in 1..Len(shapeFiles) :
                                   IsComplete(shapeFiles[x].fileSet)}}
        /\ Len(convResults) = Cardinality(ConvertedNames)

\* ------------------------------------------------------------------ C5
\* C5: when the pipeline has returned having converted exactly one set, the
\* file holds that set's FeatureCollection itself; having converted two or
\* more, it holds an object with one key per converted set, the set's name,
\* whose value is the set's FeatureCollection, and no top-level type.
C5_OutputShape ==
    pc = "resolved" =>
        LET out == fs[calls[cur].outputPath].json IN
        /\ Len(convResults) = 1 =>
              /\ out = convResults[1].geojson
              /\ out.type = "FeatureCollection"
        /\ Len(convResults) >= 2 =>
              /\ DOMAIN out = {"entries"}
              /\ Len(out.entries) = Len(convResults)
              /\ \A r \in 1..Len(convResults) :
                    Cardinality({e \in 1..Len(out.entries) :
                        out.entries[e].key = convResults[r].name}) = 1
              /\ \A r \in 1..Len(convResults) : \A e \in 1..Len(out.entries) :
                    out.entries[e].key = convResults[r].name =>
                        out.entries[e].value = convResults[r].geojson

\* Two sets with different collections were converted and written.
C5_Witness ==
    /\ pc = "resolved" /\ Len(convResults) = 2
    /\ convResults[1].geojson # convResults[2].geojson
    /\ Len(fs[calls[cur].outputPath].json.entries) = 2

\* ------------------------------------------------------------------ C10
StatusOf(rs, k) == IF k <= Len(rs) THEN rs[k].status ELSE "pending"
C10_Inv ==
    /\ Cardinality({k \in 1..Len(calls) : calls[k].state = "pending"}) <= 1
    /\ \A k \in 1..Len(calls) :
          /\ calls[k].url = sources[k].url
          /\ calls[k].state = "pending" => (k = Len(calls) /\ Len(results) = k - 1)
          /\ k < Len(calls) => k <= Len(results)
    /\ Len(results) <= Len(calls)
    /\ pc = "done" => summary.success + summary.failed = Len(sources)
C10_Step ==
    /\ Len(calls') > Len(calls) =>
          (Len(calls') = Len(calls) + 1 /\ Len(results) = Len(calls))
    /\ \A k \in 1..Len(sources) :
          /\ StatusOf(results, k) # "pending" => StatusOf(results', k) = StatusOf(results, k)
          /\ StatusOf(results', k) \in {StatusOf(results, k), "success", "failed"}
          /\ StatusOf(results', k) # "pending" =>
                (k <= Len(calls') /\ calls'[k].state \in {"fulfilled", "rejected"})
    /\ \A k \in 1..Len(results) : Len(results') >= k /\ results'[k] = results[k]

\* C10: at most one pipeline call is pending, it is the call of the item
\* after the last recorded outcome, calls are made in list order and a call
\* starts only when every earlier outcome is recorded; a status that has left
\* pending never changes; and when the driver is done the two counts add up
\* to the number of items.
C10_Sequential == [][C10_Step]_vars /\ []C10_Inv

\* A batch of two items is done with one success and one failure counted.
C10_Witness ==
    /\ pc = "done" /\ Len(sources) = 2
    /\ summary = [success |-> 1, failed |-> 1]
    /\ results[1].status = "success"

\* ------------------------------------------------------------------ C11
\* The running call has listed and grouped the archive's members, and no
\* component set has both a .shp and a .dbf slot.
NoCompleteSet ==
    /\ entryIdx >= 1
    /\ \A j \in 1..Len(shapeFiles) : ~IsComplete(shapeFiles[j].fileSet)
EmptyObject == JSONstringify([entries |-> <<>>])

C11_Inv ==
    NoCompleteSet =>
        /\ pc \in {"convert", "resolved", "rejected"}
        /\ convResults = <<>>
        /\ pc = "rejected" => calls[cur].reason = Err("write failed")
        /\ pc = "resolved" =>
              /\ calls[cur].state = "fulfilled"
              /\ fs[calls[cur].outputPath] = EmptyObject
C11_Step ==
    (NoCompleteSet /\ pc = "resolved" /\ results' # results) =>
        /\ results' = Append(results, [url |-> calls[cur].url,
                                       outputPath |-> calls[cur].outputPath,
                                       status |-> "success"])
        /\ fs'[calls[cur].outputPath] = EmptyObject

\* C11: a call whose archive was fetched, extracted and grouped into no
\* complete set converts nothing and raises nothing from the loop over the
\* sets (only the write itself can still fail); when it returns it is
\* fulfilled and its output path holds the empty object; and the driver
\* then records the item as success, the empty object still in place.
C11_EmptyArchive == [][C11_Step]_vars /\ []C11_Inv

\* An archive with members but no shapefile member was written as the empty
\* object.
C11_Witness ==
    /\ pc = "resolved" /\ NoCompleteSet
    /\ Len(files) >= 1 /\ shapeFiles = <<>>
    /\ fs[calls[cur].outputPath] = EmptyObject

====
